---- MODULE Spec2Model ----
(***************************************************************************)
(* Model of whisper_backend/model.py: bpm_category and                     *)
(* WhisperBackend.__init__ / WhisperBackend.predict.                       *)
(*                                                                         *)
(* Conventions.                                                            *)
(*  - A Python Optional is a sequence of length <= 1: None is <<>>, a      *)
(*    value v is <<v>>.                                                    *)
(*  - A BPM is a float rounded to 2 decimals; it is held as an integer     *)
(*    number of hundredths (90.0 is 9000).  A raw tempo, before rounding,  *)
(*    is held in thousandths.  A score is held in hundredths (0.99 is 99). *)
(*  - A Python dict that is iterated (meta_fields) is the sequence of its  *)
(*    (key, value) pairs in insertion order.                               *)
(*  - Module text is ASCII: the em dash U+2014 of the placeholder text is  *)
(*    written \u2014 (a backslash, u2014).                                *)
(***************************************************************************)
EXTENDS Naturals, Integers, Sequences, FiniteSets, TLC

VARIABLES
    client,          \* self.client: None or the provider client
    librosa,         \* module global librosa: None when the import failed
    MutagenFile,     \* module global MutagenFile: None when the import failed
    tasks,           \* the argument of predict
    i,               \* position of the for loop in tasks (1-based)
    pc,              \* position inside predict
    audio_url,       \* local of predict
    tmp_audio_path,  \* local of predict
    transcript_text, \* local of predict
    score,           \* local of predict
    bpm,             \* local of predict
    tempo_category,  \* local of predict
    meta_fields,     \* local of predict
    predictions,     \* local of predict, returned at the end
    files,           \* environment: local audio files created by get_local_path
    calls,           \* history: which collaborator/stage was entered for which task
    raised,          \* history: exceptions raised, by task and stage
    emitted          \* history: emitted[k] is the task predictions[k] was built from,
                     \* with the prediction as it was appended

vars == <<client, librosa, MutagenFile, tasks, i, pc, audio_url, tmp_audio_path,
          transcript_text, score, bpm, tempo_category, meta_fields, predictions,
          files, calls, raised, emitted>>

\* ------------------------------------------------------------------ bounds
MaxTasks == 2
MaxBpm == 125

\* ------------------------------------------------------- program constants
SlowBelow == 90
MediumBelow == 120
StubScore == 99
Centi == 100

None == <<>>
Some(v) == <<v>>

\* ------------------------------------------------------------- bpm_category
\* the thresholds taken as inclusive upper bounds
bpm_category_inclusive(b) ==
    IF b <= SlowBelow * Centi THEN "slow"
    ELSE IF b <= MediumBelow * Centi THEN "medium"
    ELSE "fast"

bpm_category(b) ==
    IF b < SlowBelow * Centi THEN "slow"
    ELSE IF b < MediumBelow * Centi THEN "medium"
    ELSE "fast"

\* round(float(tempo), 2): thousandths to the nearest hundredth, ties to even
Round2(m) ==
    LET q == m \div 10
        r == m % 10
    IN  IF r > 5 \/ (r = 5 /\ q % 2 = 1) THEN q + 1 ELSE q

\* -------------------------------------------------------------- str(float)
Digit(d) ==
    CASE d = 0 -> "0" [] d = 1 -> "1" [] d = 2 -> "2" [] d = 3 -> "3"
      [] d = 4 -> "4" [] d = 5 -> "5" [] d = 6 -> "6" [] d = 7 -> "7"
      [] d = 8 -> "8" [] d = 9 -> "9"

RECURSIVE IntStr(_)
IntStr(n) == IF n < 10 THEN Digit(n) ELSE IntStr(n \div 10) \o Digit(n % 10)

\* str(x) of a non-negative float x with at most 2 decimals, x in hundredths:
\* the shortest repr, always with a fractional part ("95.0", "89.99", "120.5")
FloatStr(h) ==
    LET f == h % Centi
    IN  IntStr(h \div Centi) \o "." \o
        (IF f % 10 = 0 THEN Digit(f \div 10) ELSE Digit(f \div 10) \o Digit(f % 10))

\* ------------------------------------------------------------------- tasks
NoData       == [hasData |-> FALSE, hasAudio |-> FALSE, audio |-> ""]
NoAudioKey   == [hasData |-> TRUE,  hasAudio |-> FALSE, audio |-> ""]
EmptyAudio   == [hasData |-> TRUE,  hasAudio |-> TRUE,  audio |-> ""]
WithAudio(u) == [hasData |-> TRUE,  hasAudio |-> TRUE,  audio |-> u]

AudioUrls == {"http://x/a.wav"}
TaskShapes == {NoData, NoAudioKey, EmptyAudio} \cup {WithAudio(u) : u \in AudioUrls}

TaskLists == UNION {[1..n -> TaskShapes] : n \in 0..MaxTasks}

\* lines 80-82: audio_url = None, then task['data']['audio'] when both keys exist
AudioUrlOf(task) ==
    IF task.hasData /\ task.hasAudio THEN Some(task.audio) ELSE None

\* "audio_url is None" in place of "not audio_url"
FalsyNoneOnly(u) == u = None

\* line 84: not audio_url (None or the empty string)
Falsy(u) == u = None \/ u[1] = ""

\* ---------------------------------------------------------------- __init__
\* lines 24-27: a non-empty literal (its text is abbreviated here)
OPENAI_FALLBACK_KEY == "sk-proj-fallback"

\* lines 63-70: the key is the environment's or the fallback; the client stays
\* None when there is no key or the constructor raises
InitClient(envKey, ctorRaises) ==
    LET openai_key == IF envKey # "" THEN envKey ELSE OPENAI_FALLBACK_KEY
    IN  IF openai_key # "" /\ ~ctorRaises THEN Some("client") ELSE None

Init ==
    /\ \E envKey \in {"", "sk-env"}, ctorRaises \in BOOLEAN :
          client = InitClient(envKey, ctorRaises)
    /\ librosa \in {None, Some("librosa")}
    /\ MutagenFile \in {None, Some("mutagen")}
    /\ tasks \in TaskLists
    /\ i = 1
    /\ pc = "loop"
    /\ audio_url = None
    /\ tmp_audio_path = None
    /\ transcript_text = ""
    /\ score = 0
    /\ bpm = None
    /\ tempo_category = None
    /\ meta_fields = <<>>
    /\ predictions = <<>>
    /\ files = {}
    /\ calls = {}
    /\ raised = {}
    /\ emitted = <<>>

locals == <<audio_url, tmp_audio_path, transcript_text, score, bpm,
            tempo_category, meta_fields>>
config == <<client, librosa, MutagenFile, tasks>>

\* lines 76-86: the head of the loop body
LoopStep ==
    /\ pc = "loop"
    /\ i <= Len(tasks)
    /\ audio_url' = AudioUrlOf(tasks[i])
    /\ IF Falsy(audio_url')
       THEN /\ i' = i + 1          \* continue
            /\ pc' = "loop"
       ELSE /\ i' = i
            /\ pc' = "resolve"
    /\ UNCHANGED <<config, tmp_audio_path, transcript_text, score, bpm,
                   tempo_category, meta_fields, predictions, files, calls,
                   raised, emitted>>

\* line 217
Return ==
    /\ pc = "loop"
    /\ i > Len(tasks)
    /\ pc' = "done"
    /\ UNCHANGED <<config, i, locals, predictions, files, calls, raised, emitted>>

\* ------------------------------------------------------------ environment
\* get_local_path(url): the framework's local copy of the audio
LocalPath(u) == "/cache/" \o u

\* what the provider does with one request: a transcript, or an exception
ProviderTexts == {"hello world"}
ProviderErrors == {"quota exceeded"}
ProviderResponses ==
    {[ok |-> TRUE, val |-> t] : t \in ProviderTexts}
        \cup {[ok |-> FALSE, val |-> e] : e \in ProviderErrors}

\* what beat_track returns, in thousandths of a BPM
TempoValues == {72500, 119996}
\* the line of the tempo block that raises (0: none does)
TempoRaiseAt == {0, 129, 130, 131}

\* what MutagenFile(path, easy=True) returns: None, or a tagged file whose
\* tags are lists of strings and whose info.length is absent or in
\* thousandths of a second
AudioMetas ==
    { [title |-> <<"Song">>, artist |-> <<>>, album |-> <<>>, date |-> <<>>,
       length |-> None],
      [title |-> <<>>, artist |-> <<"Band", "Guest">>, album |-> <<>>,
       date |-> <<"1999">>, length |-> Some(183456)],
      [title |-> <<"Song", "Song (live)">>, artist |-> <<"Band">>,
       album |-> <<"LP">>, date |-> <<"1999">>, length |-> Some(183456)] }
MetaReturns == {None} \cup {Some(m) : m \in AudioMetas}
\* the line of the metadata block that raises (0: none does)
MetaRaiseAt == {0, 144, 146, 147, 148, 149, 150, 152}

\* ----------------------------------------------------------------- stages
\* the handler starting the output over
OnTaskErrorDrops(preds) == <<>>

\* lines 213-215: the task's exception is logged and the loop continues; the
\* predictions gathered so far are what they were
OnTaskError(preds) == preds

\* lines 88-106, 213-215
GetLocalPath ==
    /\ pc = "resolve"
    /\ calls' = calls \cup {[task |-> i, op |-> "resolve"]}
    /\ \E ok \in BOOLEAN :
          IF ok
          THEN /\ tmp_audio_path' = Some(LocalPath(audio_url[1]))
               /\ files' = files \cup {LocalPath(audio_url[1])}
               /\ transcript_text' = ""
               /\ score' = 0
               /\ bpm' = None
               /\ tempo_category' = None
               /\ meta_fields' = <<>>
               /\ pc' = "transcribe"
               /\ UNCHANGED <<i, predictions, raised>>
          ELSE /\ raised' = raised \cup
                     {[task |-> i, stage |-> "resolve", err |-> "ResolutionError"]}
               /\ predictions' = OnTaskError(predictions)
               /\ i' = i + 1
               /\ pc' = "loop"
               /\ UNCHANGED <<tmp_audio_path, transcript_text, score, bpm,
                              tempo_category, meta_fields, files>>
    /\ UNCHANGED <<config, audio_url, emitted>>

Placeholder == "[OpenAI not configured \\u2014 transcription unavailable]"

\* the error text without the exception's description
TranscribeOutcomeNoDetail(cl, resp) ==
    IF cl = None
    THEN [text |-> Placeholder, score |-> 0]
    ELSE IF resp.ok
         THEN [text |-> resp.val, score |-> StubScore]
         ELSE [text |-> "[Transcription error]", score |-> 0]

\* the initial empty transcript left in place when there is no client
TranscribeOutcomeNoPlaceholder(cl, resp) ==
    IF cl = None
    THEN [text |-> "", score |-> 0]
    ELSE IF resp.ok
         THEN [text |-> resp.val, score |-> StubScore]
         ELSE [text |-> "[Transcription error: " \o resp.val \o "]", score |-> 0]

\* lines 102-103, 108-122
TranscribeOutcome(cl, resp) ==
    IF cl = None
    THEN [text |-> Placeholder, score |-> 0]
    ELSE IF resp.ok
         THEN [text |-> resp.val, score |-> StubScore]
         ELSE [text |-> "[Transcription error: " \o resp.val \o "]", score |-> 0]

Transcribe ==
    /\ pc = "transcribe"
    /\ \E resp \in ProviderResponses :
          /\ transcript_text' = TranscribeOutcome(client, resp).text
          /\ score' = TranscribeOutcome(client, resp).score
          /\ calls' = calls \cup {[task |-> i, op |-> "transcribe"]}
                \cup (IF client # None
                      THEN {[task |-> i, op |-> "provider"]} ELSE {})
          /\ raised' = raised \cup
                (IF client # None /\ ~resp.ok
                 THEN {[task |-> i, stage |-> "provider", err |-> resp.val]}
                 ELSE {})
    /\ pc' = "tempo"
    /\ UNCHANGED <<config, i, audio_url, tmp_audio_path, bpm, tempo_category,
                   meta_fields, predictions, files, emitted>>

\* bpm kept when the block raises after line 131 assigned it
TempoOutcomePartial(lib, raiseAt, tempo) ==
    IF lib = None \/ raiseAt \in {129, 130}
    THEN [bpm |-> None, tempo_category |-> None]
    ELSE IF raiseAt # 0
         THEN [bpm |-> Some(Round2(tempo)), tempo_category |-> None]
         ELSE [bpm |-> Some(Round2(tempo)),
               tempo_category |-> Some(bpm_category(Round2(tempo)))]

\* lines 104-105, 127-137
TempoOutcome(lib, raiseAt, tempo) ==
    IF lib = None \/ raiseAt # 0
    THEN [bpm |-> None, tempo_category |-> None]
    ELSE [bpm |-> Some(Round2(tempo)),
          tempo_category |-> Some(bpm_category(Round2(tempo)))]

TempoStage ==
    /\ pc = "tempo"
    /\ \E raiseAt \in TempoRaiseAt, tempo \in TempoValues :
          /\ bpm' = TempoOutcome(librosa, raiseAt, tempo).bpm
          /\ tempo_category' = TempoOutcome(librosa, raiseAt, tempo).tempo_category
          /\ raised' = raised \cup
                (IF librosa # None /\ raiseAt # 0
                 THEN {[task |-> i, stage |-> "tempo", err |-> ""]} ELSE {})
    /\ calls' = calls \cup {[task |-> i, op |-> "tempo"]}
    /\ pc' = "metadata"
    /\ UNCHANGED <<config, i, audio_url, tmp_audio_path, transcript_text, score,
                   meta_fields, predictions, files, emitted>>

\* next(iter(tag), None)
First(tag) == IF tag = <<>> THEN None ELSE Some(tag[1])

\* lines 106, 142-157: the assignments that ran before the line that raises
ExtractMeta(mut, raiseAt, ret) ==
    IF mut = None \/ raiseAt = 144 \/ ret = None
    THEN <<>>
    ELSE LET m == ret[1]
             reached(line) == raiseAt = 0 \/ line < raiseAt
         IN  (IF reached(146)
              THEN <<[field |-> "title", value |-> First(m.title)]>> ELSE <<>>)
             \o (IF reached(147)
                 THEN <<[field |-> "artist", value |-> First(m.artist)]>> ELSE <<>>)
             \o (IF reached(148)
                 THEN <<[field |-> "album", value |-> First(m.album)]>> ELSE <<>>)
             \o (IF reached(149)
                 THEN <<[field |-> "year", value |-> First(m.date)]>> ELSE <<>>)
             \o (IF reached(152) /\ m.length # None
                 THEN <<[field |-> "duration", value |-> Some(Round2(m.length[1]))]>>
                 ELSE <<>>)

MetadataStage ==
    /\ pc = "metadata"
    /\ \E raiseAt \in MetaRaiseAt, ret \in MetaReturns :
          \* a line past the call raises only when the call returned a file,
          \* and line 152 only when there is a length to convert
          /\ (raiseAt > 144 => ret # None)
          /\ (raiseAt = 152 => ret[1].length # None)
          /\ meta_fields' = ExtractMeta(MutagenFile, raiseAt, ret)
          /\ raised' = raised \cup
                (IF MutagenFile # None /\ raiseAt # 0
                 THEN {[task |-> i, stage |-> "metadata", err |-> ""]} ELSE {})
    /\ calls' = calls \cup {[task |-> i, op |-> "metadata"]}
    /\ pc' = "build"
    /\ UNCHANGED <<config, i, audio_url, tmp_audio_path, transcript_text, score,
                   bpm, tempo_category, predictions, files, emitted>>

\* ---------------------------------------------------------------- assembly
TextItem(name, text) ==
    [value |-> [text |-> <<text>>], from_name |-> name, to_name |-> "audio",
     type |-> "textarea"]
ChoiceItem(name, choice) ==
    [value |-> [choices |-> <<choice>>], from_name |-> name, to_name |-> "audio",
     type |-> "choices"]
NumberItem(name, number) ==
    [value |-> [number |-> number], from_name |-> name, to_name |-> "audio",
     type |-> "number"]

\* the loop without "if value is None: continue": str(None) is emitted
RECURSIVE MetaItemsKeepNone(_)
MetaItemsKeepNone(mf) ==
    IF mf = <<>> THEN <<>>
    ELSE LET f == Head(mf)
         IN  (IF f.value = None THEN <<TextItem(f.field, "None")>>
              ELSE IF f.field = "duration"
                   THEN <<NumberItem(f.field, f.value[1])>>
                   ELSE <<TextItem(f.field, f.value[1])>>)
             \o MetaItemsKeepNone(Tail(mf))

\* lines 193-209: one item per pair of meta_fields whose value is not None
RECURSIVE MetaItems(_)
MetaItems(mf) ==
    IF mf = <<>> THEN <<>>
    ELSE LET f == Head(mf)
         IN  (IF f.value = None THEN <<>>
              ELSE IF f.field = "duration"
                   THEN <<NumberItem(f.field, f.value[1])>>
                   ELSE <<TextItem(f.field, f.value[1])>>)
             \o MetaItems(Tail(mf))

\* lines 162-209
BuildResult(text, b, cat, mf) ==
    <<TextItem("transcription", text)>>
        \o (IF b # None THEN <<TextItem("bpm", FloatStr(b[1]))>> ELSE <<>>)
        \o (IF cat # None THEN <<ChoiceItem("tempo_category", cat[1])>> ELSE <<>>)
        \o MetaItems(mf)

\* the score lowered to zero when no tempo was detected
BuildPredictionTempoScore(text, sc, b, cat, mf) ==
    [result |-> BuildResult(text, b, cat, mf),
     score |-> IF b = None THEN 0 ELSE sc]

\* lines 162-174
BuildPrediction(text, sc, b, cat, mf) ==
    [result |-> BuildResult(text, b, cat, mf), score |-> sc]

\* lines 162-211
Assemble ==
    /\ pc = "build"
    /\ predictions' = Append(predictions,
          BuildPrediction(transcript_text, score, bpm, tempo_category, meta_fields))
    /\ emitted' = Append(emitted,
          [task |-> i,
           prediction |-> BuildPrediction(transcript_text, score, bpm,
                                          tempo_category, meta_fields)])
    /\ i' = i + 1
    /\ pc' = "loop"
    /\ UNCHANGED <<config, locals, files, calls, raised>>

Next ==
    \/ LoopStep
    \/ GetLocalPath
    \/ Transcribe
    \/ TempoStage
    \/ MetadataStage
    \/ Assemble
    \/ Return

Spec == Init /\ [][Next]_vars

\* ------------------------------------------------- bpm_category on its own
\* every BPM of 0.00 .. MaxBpm.00, in hundredths, is given to bpm_category
InitBpm ==
    /\ client = None
    /\ librosa = Some("librosa")
    /\ MutagenFile = None
    /\ tasks = <<>>
    /\ i = 1
    /\ pc = "bpm_category"
    /\ audio_url = None
    /\ tmp_audio_path = None
    /\ transcript_text = ""
    /\ score = 0
    /\ bpm \in {Some(v) : v \in 0..(MaxBpm * Centi)}
    /\ tempo_category = None
    /\ meta_fields = <<>>
    /\ predictions = <<>>
    /\ files = {}
    /\ calls = {}
    /\ raised = {}
    /\ emitted = <<>>

\* line 132
Categorize ==
    /\ pc = "bpm_category"
    /\ tempo_category' = Some(bpm_category(bpm[1]))
    /\ pc' = "categorized"
    /\ UNCHANGED <<config, i, audio_url, tmp_audio_path, transcript_text, score,
                   bpm, meta_fields, predictions, files, calls, raised, emitted>>

NextBpm == Categorize

SpecBpm == InitBpm /\ [][NextBpm]_vars

\* =================================================================== claims
\* a task that has an audio reference: a data key, an audio key under it and
\* a non-empty value
HasAudio(task) == task.hasData /\ task.hasAudio /\ task.audio # ""

Raised(t, stage) == \E r \in raised : r.task = t /\ r.stage = stage
Called(t, op) == [task |-> t, op |-> op] \in calls
Emitted(t) == \E k \in 1..Len(emitted) : emitted[k].task = t
\* task t has been dealt with: the loop is past it
Finished(t) == t < i

FieldOrder == <<"transcription", "bpm", "tempo_category", "title", "artist",
                "album", "year", "duration">>
MetaNames == {"title", "artist", "album", "year", "duration"}
FieldNames == {FieldOrder[n] : n \in 1..Len(FieldOrder)}
\* the place of a name in FieldOrder
Pos(name) ==
    CASE name = "transcription" -> 1 [] name = "bpm" -> 2
      [] name = "tempo_category" -> 3 [] name = "title" -> 4
      [] name = "artist" -> 5 [] name = "album" -> 6
      [] name = "year" -> 7 [] name = "duration" -> 8
NamesOf(p) == {p.result[n].from_name : n \in 1..Len(p.result)}
HasItem(p, name) == name \in NamesOf(p)
ItemOf(p, name) == p.result[CHOOSE n \in 1..Len(p.result) : p.result[n].from_name = name]

\* predict is between two tasks or has returned: predictions holds whole
\* predictions only (it changes in Assemble alone, which ends a task)
AtRest == pc \in {"loop", "done"}

\* the state right after Assemble: the locals are those of the task the last
\* prediction was built from
JustBuilt ==
    /\ pc = "loop"
    /\ Len(emitted) > 0
    /\ emitted[Len(emitted)].task = i - 1

\* C1: between tasks and once predict has returned, the predictions are, in
\* input order, exactly those of the finished
\* tasks that have an audio reference and whose pipeline raised nothing to the
\* task-level handler; each is still the prediction that was built for its
\* task; there are no more predictions than tasks.
C1_OrderAndIsolation ==
    AtRest =>
        /\ Len(predictions) = Len(emitted)
        /\ Len(predictions) <= Len(tasks)
        /\ \A k \in 1..Len(emitted) : predictions[k] = emitted[k].prediction
        /\ \A k, l \in 1..Len(emitted) : k < l => emitted[k].task < emitted[l].task
        /\ {emitted[k].task : k \in 1..Len(emitted)}
              = {t \in 1..Len(tasks) :
                    Finished(t) /\ HasAudio(tasks[t]) /\ ~Raised(t, "resolve")}

\* predict returned; the first task gave a prediction and the resolution of
\* the second one failed
C1_Witness ==
    /\ pc = "done"
    /\ Len(tasks) = 2
    /\ Raised(2, "resolve")
    /\ Len(predictions) = 1
    /\ emitted[1].task = 1

\* C2: a task without data.audio (no data key, no audio key, an empty audio
\* value) gives no prediction, raises nothing, and neither the resolution nor
\* any stage is entered for it; the pipeline only ever runs on a task that has
\* an audio reference.
C2_NoAudioSkipped ==
    /\ \A t \in 1..Len(tasks) :
          ~HasAudio(tasks[t]) =>
              /\ ~Emitted(t)
              /\ \A c \in calls : c.task # t
              /\ \A r \in raised : r.task # t
    /\ pc \in {"resolve", "transcribe", "tempo", "metadata", "build"}
          => HasAudio(tasks[i])

\* predict returned a prediction for the second task after skipping a first
\* task whose audio value is empty
C2_Witness ==
    /\ pc = "done"
    /\ Len(tasks) = 2
    /\ tasks[1] = EmptyAudio
    /\ Len(predictions) = 1
    /\ emitted[1].task = 2

\* C3: between tasks and once predict has returned: when the provider call of
\* a task raised, the task still gives a
\* prediction once it is finished; its transcription text is the error text
\* with the exception's description in it, its score is 0.0, and the tempo and
\* metadata stages were entered for the task.
C3_ProviderFailure ==
    AtRest =>
        /\ \A r \in raised :
              (r.stage = "provider" /\ Finished(r.task)) => Emitted(r.task)
        /\ \A k \in 1..Len(emitted) : \A r \in raised :
              (r.stage = "provider" /\ r.task = emitted[k].task) =>
                  /\ client # None
                  /\ predictions[k].result[1].from_name = "transcription"
                  /\ predictions[k].result[1].value.text
                        = <<"[Transcription error: " \o r.err \o "]">>
                  /\ predictions[k].score = 0
                  /\ Called(r.task, "tempo")
                  /\ Called(r.task, "metadata")

\* a prediction was built for a task whose provider call raised
C3_Witness ==
    \E k \in 1..Len(emitted) :
        /\ Raised(emitted[k].task, "provider")
        /\ Len(predictions) >= k

C5_FieldOrder ==
    /\ AtRest => \A k \in 1..Len(predictions) :
          LET res == predictions[k].result
          IN  /\ res[1].from_name = "transcription"
              /\ \A n \in 1..Len(res) : res[n].from_name \in FieldNames
              /\ \A n \in 1..(Len(res) - 1) :
                    Pos(res[n].from_name) < Pos(res[n + 1].from_name)
    /\ JustBuilt =>
          NamesOf(predictions[Len(predictions)])
              = {"transcription"}
                  \cup (IF bpm # None THEN {"bpm"} ELSE {})
                  \cup (IF tempo_category # None THEN {"tempo_category"} ELSE {})
                  \cup {meta_fields[n].field : n \in
                          {m \in 1..Len(meta_fields) : meta_fields[m].value # None}}

\* a prediction was just built from a tempo and from metadata whose title is
\* absent and whose artist is present
C5_Witness ==
    /\ JustBuilt
    /\ bpm # None
    /\ \E n, m \in 1..Len(meta_fields) :
          /\ meta_fields[n].field = "title" /\ meta_fields[n].value = None
          /\ meta_fields[m].field = "artist" /\ meta_fields[m].value # None

\* C6: when metadata extraction is unavailable or raised for a task, the
\* task's prediction has no title, artist, album, year or duration item.
C6_MetadataAllOrNothing ==
    \A k \in 1..Len(emitted) :
        (MutagenFile = None \/ Raised(emitted[k].task, "metadata"))
            => NamesOf(predictions[k]) \cap MetaNames = {}

\* C7: between tasks and after predict returned, no local audio file that a
\* task of the batch was resolved to remains.
C7_FilesReleased ==
    pc \in {"loop", "done"} => files = {}

\* C8: between tasks and once predict has returned, the score of a prediction
\* is the stub 0.99 exactly when the provider
\* was called for its task and did not raise, and 0.0 otherwise, whatever the
\* tempo and metadata stages did.
C8_ScoreIsTranscriptionScore ==
    AtRest =>
        \A k \in 1..Len(emitted) :
            LET t == emitted[k].task
            IN  predictions[k].score
                  = (IF Called(t, "provider") /\ ~Raised(t, "provider")
                     THEN 99 ELSE 0)

\* a prediction with score 0.99 for a task whose tempo and metadata stages
\* both raised
C8_Witness ==
    \E k \in 1..Len(emitted) :
        /\ predictions[k].score = 99
        /\ Raised(emitted[k].task, "tempo")
        /\ Raised(emitted[k].task, "metadata")

\* what a prediction shows for each BPM the analysis can give: the text of
\* the bpm item, and bpm_category of that BPM
BpmShown ==
    {[text |-> FloatStr(Round2(x)), category |-> bpm_category(Round2(x))] :
        x \in TempoValues}

\* C9: between tasks and once predict has returned: a task whose tempo analysis is unavailable or raised still gives a
\* prediction once it is finished, with neither a bpm nor a tempo_category
\* item; every prediction has a bpm item exactly when it has a
\* tempo_category item, and then the category is bpm_category of the BPM the
\* bpm item shows.
C9_TempoAllOrNothing ==
    AtRest =>
        /\ \A r \in raised :
              (r.stage = "tempo" /\ Finished(r.task)) => Emitted(r.task)
        /\ \A k \in 1..Len(emitted) :
              LET p == predictions[k]
              IN  /\ HasItem(p, "bpm") <=> HasItem(p, "tempo_category")
                  /\ (librosa = None \/ Raised(emitted[k].task, "tempo"))
                        => (~HasItem(p, "bpm") /\ ~HasItem(p, "tempo_category"))
                  /\ HasItem(p, "bpm") =>
                        [text |-> ItemOf(p, "bpm").value.text[1],
                         category |-> ItemOf(p, "tempo_category").value.choices[1]]
                            \in BpmShown

\* predict returned two predictions: the tempo analysis of the first task
\* raised, the second one has a bpm item
C9_Witness ==
    /\ pc = "done"
    /\ Len(predictions) = 2
    /\ Raised(emitted[1].task, "tempo")
    /\ HasItem(predictions[2], "bpm")

\* C10: for a BPM v >= 0, bpm_category(v) is slow when v < 90, medium when
\* 90 <= v < 120 and fast when v >= 120 (v in hundredths: 90 is 9000).
C10_Thresholds ==
    pc = "categorized" =>
        LET v == bpm[1]
            c == tempo_category[1]
        IN  /\ c \in {"slow", "medium", "fast"}
            /\ (c = "slow") <=> (v < 9000)
            /\ (c = "medium") <=> (9000 <= v /\ v < 12000)
            /\ (c = "fast") <=> (v >= 12000)
            /\ v = 9000 => c = "medium"
            /\ v = 12000 => c = "fast"

\* bpm_category was applied to exactly 120.00
C10_Witness ==
    /\ pc = "categorized"
    /\ bpm = Some(12000)
    /\ tempo_category = Some("fast")
====
